---- MODULE Spec2Model ----
(***************************************************************************)
(* astroglide: rise/set, twilight, golden/blue hour of the Sun and Moon.   *)
(*                                                                         *)
(* The model covers the altitude event solver (internal/solver) step by    *)
(* step, and the event orchestrator (RiseSetFor, TwilightFor,              *)
(* GoldenHourFor, BlueHourFor) with the local-day bookkeeping it does      *)
(* around the solver.                                                      *)
(*                                                                         *)
(* Units.  An instant is a whole number of seconds since                   *)
(* 0001-01-01 00:00:00 UTC, the instant of Go's zero time.Time.  A         *)
(* calendar date (year, month, day) is the number of the day counted from  *)
(* that origin.  Altitudes of the Sun and Moon are in thousandths of a     *)
(* degree.  The floating-point series of the position models are replaced  *)
(* by a piecewise-linear daily arc with the same parameters (latitude,     *)
(* longitude, declination).                                                *)
(***************************************************************************)
EXTENDS Integers, Sequences, FiniteSets, TLC

VARIABLES
    sv,     \* the activation of solver.FindAltitudeEvent called directly
    api,    \* the orchestrator call being answered: its arguments
    trace,  \* the solver searches that call made, in order
    ret,    \* the value that call returned
    j2000,  \* timeutil's package-level variable, the reference epoch
    tasks   \* the goroutines that run queries side by side: their locals

vars == <<sv, api, trace, ret, j2000, tasks>>

\* ------------------------------------------------------------------ bounds

\* Direct solver calls take their window from 0..MaxT.
MaxT == 8
\* Largest sample count of a direct solver call.
MaxSteps == 5
\* Largest tolerance of a direct solver call.
MaxTol == 2
\* Altitude evaluations are counted up to this many.
EvalCap == 60
\* The day on which the modelled timezones change their UTC offset.
DSTDay == 3
\* how far past 1 the computed cosine may drift, in 500ths
MaxDrift == 10

\* Bound: the bits of the significand of a float (float64 has 53).
Mantissa == 12

\* --------------------------------------------------------------- time.Time

Hour == 3600
Day == 24 * Hour

Abs(x) == IF x < 0 THEN -x ELSE x
Min(x, y) == IF x < y THEN x ELSE y

\* Go's integer division truncates toward zero.
GoDiv(x, y) ==
    IF (x >= 0) = (y > 0) THEN Abs(x) \div Abs(y) ELSE -(Abs(x) \div Abs(y))

Alpha == -(2 * 1000000000)
Omega == 2 * 1000000000

\* A *time.Location is named; its rules are the UTC offset o1 before the
\* instant `at` and o2 from it on.
ZoneRules ==
    {
    [name |-> "UTC", o1 |-> 0, o2 |-> 0, at |-> Alpha],
    [name |-> "Phoenix", o1 |-> -7 * Hour, o2 |-> -7 * Hour, at |-> Alpha],
    \* 02:00 -> 03:00 on DSTDay, west of Greenwich
    [name |-> "DenverSpring", o1 |-> -7 * Hour, o2 |-> -6 * Hour,
     at |-> DSTDay * Day + 9 * Hour],
    \* 02:00 -> 01:00 on DSTDay
    [name |-> "DenverFall", o1 |-> -6 * Hour, o2 |-> -7 * Hour,
     at |-> DSTDay * Day + 8 * Hour],
    \* 02:00 -> 03:00 on DSTDay, east of Greenwich
    [name |-> "BerlinSpring", o1 |-> 1 * Hour, o2 |-> 2 * Hour,
     at |-> DSTDay * Day + 1 * Hour],
    \* 00:00 -> 01:00 on DSTDay: the day has no local midnight
    [name |-> "SaoPauloSpring", o1 |-> -3 * Hour, o2 |-> -2 * Hour,
     at |-> DSTDay * Day + 3 * Hour],
    [name |-> "BeirutSpring", o1 |-> 2 * Hour, o2 |-> 3 * Hour,
     at |-> DSTDay * Day - 2 * Hour],
    \* 24:00 -> 23:00 at the end of DSTDay - 1
    [name |-> "SaoPauloFall", o1 |-> -2 * Hour, o2 |-> -3 * Hour,
     at |-> DSTDay * Day + 2 * Hour]
    }

Zones == {z.name : z \in ZoneRules}

Rules(l) == CHOOSE z \in ZoneRules : z.name = l

\* Location.lookup: the offset in force at the instant u and the era it is in.
lookup(l, u) ==
    LET z == Rules(l)
    IN IF u < z.at
       THEN [offset |-> z.o1, start |-> Alpha, end |-> z.at]
       ELSE [offset |-> z.o2, start |-> z.at, end |-> Omega]

\* time.Date(year, month, day, h, m, s, ns, loc), with clock = h:m:s in seconds.
\* The wall time is first read as if it were UTC; the offset found there is
\* replaced by the one at the corrected instant when that falls in another era.
Date(day, clock, l) ==
    LET unix == day * Day + clock
        z == lookup(l, unix)
        utc == unix - z.offset
        offset == IF z.offset # 0 /\ (utc < z.start \/ utc >= z.end)
                  THEN lookup(l, utc).offset
                  ELSE z.offset
    IN [abs |-> unix - offset, loc |-> l]

ZeroTime == [abs |-> 0, loc |-> "UTC"]
IsZero(t) == t.abs = 0

\* Seconds on the wall clock of t's location since the origin.
WallSec(t) == t.abs + lookup(t.loc, t.abs).offset
\* t.Date()
DateOf(t) == WallSec(t) \div Day
\* t.Hour(), t.Minute(), t.Second() as seconds since local midnight
ClockOf(t) == WallSec(t) % Day
\* t.In(loc), t.UTC(), t.Add(d), t.After(u)
In(t, l) == [abs |-> t.abs, loc |-> l]
UTC(t) == In(t, "UTC")
Add(t, d) == [abs |-> t.abs + d, loc |-> t.loc]
After(t, u) == t.abs > u.abs

\* --------------------------------------------------------- altitude models

\* A daily arc, thousandths of a degree: 90 - |lat - decl| at upper culmination
\* (hour angle 0), -(90 - |lat + decl|) at lower culmination, linear in the
\* hour angle H between them.  `transit` is an instant of upper culmination and
\* `period` the time from one culmination to the next.
Arc(lat, decl, transit, period, t) ==
    LET peak == 90000 - Abs(lat * 1000 - decl)
        trough == Abs(lat * 1000 + decl) - 90000
        r == (t - transit) % period
        H == Min(r, period - r)
    IN peak - (((peak - trough) \div 100) * H) \div (period \div 200)

\* sun.apparentAltitude: the Sun culminates at 12:00 UTC on longitude 0 and
\* four minutes earlier per degree east, once per day.  Its declination is decl
\* at the start of the first day of the model and moves by `rate` per day.
SunApparentAltitude(lat, lon, decl, rate, t) ==
    Arc(lat, decl + GoDiv(rate * (t - (DSTDay - 1) * Day), Day),
        12 * Hour - lon * 240, Day, t)

\* The Moon returns to the meridian about 50 minutes later each day.
LunarDay == Day + 50 * 60

\* moon.apparentAltitude: the same arc, culminating `lag` seconds after the
\* Sun did on day 0.
MoonApparentAltitude(lat, lon, decl, lag, t) ==
    Arc(lat, decl, 12 * Hour - lon * 240 + lag, LunarDay, t)

moonSetExtraDropDeg == 160

\* ApparentHorizonAltitudeMoon, thousandths of a degree.
ApparentHorizonAltitudeMoon(distanceKm) ==
    LET meanDistKm == 384400
        baseHorizon == -900
        kScale == 600
    IN IF distanceKm <= 0
       THEN baseHorizon
       ELSE baseHorizon - GoDiv(kScale * (distanceKm - meanDistKm), meanDistKm)

\* A synthetic altitude function for direct solver calls: a wave of the given
\* period that peaks at `noon` and falls by `slope` per unit of time.
Wave(f, t) ==
    LET r == (t - f.noon) % f.period
    IN f.peak - f.slope * Min(r, f.period - r)

\* An AltitudeFunc is a closure; `f` records what it closes over.
AltitudeFunc(f, t) ==
    CASE f.kind = "wave" -> Wave(f, t)
      [] f.kind = "sun" -> SunApparentAltitude(f.lat, f.lon, f.decl, f.rate, t)
      [] f.kind = "moonRise" ->
            MoonApparentAltitude(f.lat, f.lon, f.decl, f.lag, t)
            - ApparentHorizonAltitudeMoon(f.dist)
      [] f.kind = "moonSet" ->
            MoonApparentAltitude(f.lat, f.lon, f.decl, f.lag, t)
            - (ApparentHorizonAltitudeMoon(f.dist) + moonSetExtraDropDeg)

\* ------------------------------------------------------------ solver

CrossingUp == 0
CrossingDown == 1

\* hasCrossing with the earlier value allowed to sit on the target.
hasCrossingOrEqual(a1, a2, eventType) ==
    CASE eventType = CrossingUp -> a1 <= 0 /\ a2 >= 0
      [] eventType = CrossingDown -> a1 >= 0 /\ a2 <= 0
      [] OTHER -> a1 * a2 <= 0

\* hasCrossing that wants the later value strictly past the target.
hasCrossingStrict(a1, a2, eventType) ==
    CASE eventType = CrossingUp -> a1 < 0 /\ a2 > 0
      [] eventType = CrossingDown -> a1 > 0 /\ a2 < 0
      [] OTHER -> a1 * a2 <= 0

hasCrossing(a1, a2, eventType) ==
    CASE eventType = CrossingUp -> a1 < 0 /\ a2 >= 0
      [] eventType = CrossingDown -> a1 > 0 /\ a2 <= 0
      [] OTHER -> a1 * a2 <= 0

\* Result{OK: false}: the Time field keeps Go's zero value.
NotFound == [Time |-> 0, OK |-> FALSE]

NoFunc == [kind |-> "none"]

NoArgs ==
    [f |-> NoFunc, start |-> 0, end |-> 0, targetDeg |-> 0, eventType |-> 0,
     steps |-> 0, tol |-> 0]

\* The frame of one FindAltitudeEvent activation: its arguments, its locals
\* (those of bisect included), the number of calls of f so far, its result.
SolverIdle ==
    [pc |-> "idle", arg |-> NoArgs, steps |-> 0, interval |-> 0, i |-> 0,
     prevT |-> 0, prevAlt |-> 0, a |-> 0, b |-> 0, altA |-> 0, altB |-> 0,
     evals |-> 0, res |-> NotFound]

Evaluated(s, n) == [s EXCEPT !.evals = Min(s.evals + n, EvalCap)]

Returned(s, r) == [s EXCEPT !.pc = "done", !.res = r]

\* FindAltitudeEvent without the return for a degenerate window.
FindAltitudeEventEnterAnyWindow(f, start, end, targetDeg, eventType, steps, tol) ==
    LET fr == [SolverIdle EXCEPT
                 !.arg = [f |-> f, start |-> start, end |-> end,
                          targetDeg |-> targetDeg, eventType |-> eventType,
                          steps |-> steps, tol |-> tol]]
        n == IF steps < 2 THEN 2 ELSE steps
    IN Evaluated(
         [fr EXCEPT !.pc = "scan",
                    !.steps = n,
                    !.interval = GoDiv(end - start, n - 1),
                    !.i = 1,
                    !.prevT = start,
                    !.prevAlt = AltitudeFunc(f, start) - targetDeg],
         1)

\* FindAltitudeEvent that takes a sample count below 3 as 3.
FindAltitudeEventEnterAtLeastThree(f, start, end, targetDeg, eventType, steps, tol) ==
    LET fr == [SolverIdle EXCEPT
                 !.arg = [f |-> f, start |-> start, end |-> end,
                          targetDeg |-> targetDeg, eventType |-> eventType,
                          steps |-> steps, tol |-> tol]]
    IN IF ~(start < end)
       THEN Returned(fr, NotFound)
       ELSE LET n == IF steps < 3 THEN 3 ELSE steps
            IN Evaluated(
                 [fr EXCEPT !.pc = "scan",
                            !.steps = n,
                            !.interval = GoDiv(end - start, n - 1),
                            !.i = 1,
                            !.prevT = start,
                            !.prevAlt = AltitudeFunc(f, start) - targetDeg],
                 1)

\* FindAltitudeEvent up to its loop: the degenerate-window return, the clamp of
\* steps, the sampling interval and the first sample.
FindAltitudeEventEnter(f, start, end, targetDeg, eventType, steps, tol) ==
    LET fr == [SolverIdle EXCEPT
                 !.arg = [f |-> f, start |-> start, end |-> end,
                          targetDeg |-> targetDeg, eventType |-> eventType,
                          steps |-> steps, tol |-> tol]]
    IN IF ~(start < end)
       THEN Returned(fr, NotFound)
       ELSE LET n == IF steps < 2 THEN 2 ELSE steps
            IN Evaluated(
                 [fr EXCEPT !.pc = "scan",
                            !.steps = n,
                            !.interval = GoDiv(end - start, n - 1),
                            !.i = 1,
                            !.prevT = start,
                            !.prevAlt = AltitudeFunc(f, start) - targetDeg],
                 1)

\* bisect up to its loop: both ends are evaluated again and checked.
bisectEnter(s, a, b) ==
    LET altA == AltitudeFunc(s.arg.f, a) - s.arg.targetDeg
        altB == AltitudeFunc(s.arg.f, b) - s.arg.targetDeg
        fr == Evaluated([s EXCEPT !.a = a, !.b = b, !.altA = altA, !.altB = altB], 2)
    IN IF ~hasCrossing(altA, altB, s.arg.eventType)
       THEN Returned(fr, NotFound)
       ELSE [fr EXCEPT !.pc = "bisect"]

\* The sampling loop that passes over a bracket while a later pair of samples
\* brackets a crossing too.
scanToLastBracket(s) ==
    IF s.i < s.steps
    THEN LET t == s.arg.start + s.i * s.interval
             alt == AltitudeFunc(s.arg.f, t) - s.arg.targetDeg
             later == \E k \in (s.i + 1)..(s.steps - 1) :
                        hasCrossing(
                          AltitudeFunc(s.arg.f, s.arg.start + (k - 1) * s.interval)
                            - s.arg.targetDeg,
                          AltitudeFunc(s.arg.f, s.arg.start + k * s.interval)
                            - s.arg.targetDeg,
                          s.arg.eventType)
         IN IF hasCrossing(s.prevAlt, alt, s.arg.eventType) /\ ~later
            THEN bisectEnter(Evaluated(s, 1), s.prevT, t)
            ELSE Evaluated([s EXCEPT !.i = s.i + 1, !.prevT = t, !.prevAlt = alt], 1)
    ELSE Returned(s, NotFound)

\* One pass of the sampling loop of FindAltitudeEvent (or its exit).
scan(s) ==
    IF s.i < s.steps
    THEN LET t == s.arg.start + s.i * s.interval
             alt == AltitudeFunc(s.arg.f, t) - s.arg.targetDeg
         IN IF hasCrossing(s.prevAlt, alt, s.arg.eventType)
            THEN bisectEnter(Evaluated(s, 1), s.prevT, t)
            ELSE Evaluated([s EXCEPT !.i = s.i + 1, !.prevT = t, !.prevAlt = alt], 1)
    ELSE Returned(s, NotFound)

\* The loop of bisect moving the wrong end to the midpoint.
bisectLoopWrongEnd(s) ==
    IF s.b - s.a > s.arg.tol
    THEN LET mid == s.a + GoDiv(s.b - s.a, 2)
             altM == AltitudeFunc(s.arg.f, mid) - s.arg.targetDeg
         IN IF hasCrossing(s.altA, altM, s.arg.eventType)
            THEN Evaluated([s EXCEPT !.a = mid, !.altA = altM], 1)
            ELSE Evaluated([s EXCEPT !.b = mid, !.altB = altM], 1)
    ELSE Returned(s, [Time |-> s.a + GoDiv(s.b - s.a, 2), OK |-> TRUE])

\* The loop of bisect that returns the left end of the final bracket.
bisectLoopReturnsLeftEnd(s) ==
    IF s.b - s.a > s.arg.tol
    THEN LET mid == s.a + GoDiv(s.b - s.a, 2)
             altM == AltitudeFunc(s.arg.f, mid) - s.arg.targetDeg
         IN IF hasCrossing(s.altA, altM, s.arg.eventType)
            THEN Evaluated([s EXCEPT !.b = mid, !.altB = altM], 1)
            ELSE Evaluated([s EXCEPT !.a = mid, !.altA = altM], 1)
    ELSE Returned(s, [Time |-> s.a, OK |-> TRUE])

\* The loop of bisect going on until the bracket is a quarter of tol wide.
bisectLoopQuarterTol(s) ==
    IF s.b - s.a > GoDiv(s.arg.tol, 4)
    THEN LET mid == s.a + GoDiv(s.b - s.a, 2)
             altM == AltitudeFunc(s.arg.f, mid) - s.arg.targetDeg
         IN IF hasCrossing(s.altA, altM, s.arg.eventType)
            THEN Evaluated([s EXCEPT !.b = mid, !.altB = altM], 1)
            ELSE Evaluated([s EXCEPT !.a = mid, !.altA = altM], 1)
    ELSE Returned(s, [Time |-> s.a + GoDiv(s.b - s.a, 2), OK |-> TRUE])

\* The loop of bisect that returns the right end of the final bracket.
bisectLoopReturnsRightEnd(s) ==
    IF s.b - s.a > s.arg.tol
    THEN LET mid == s.a + GoDiv(s.b - s.a, 2)
             altM == AltitudeFunc(s.arg.f, mid) - s.arg.targetDeg
         IN IF hasCrossing(s.altA, altM, s.arg.eventType)
            THEN Evaluated([s EXCEPT !.b = mid, !.altB = altM], 1)
            ELSE Evaluated([s EXCEPT !.a = mid, !.altA = altM], 1)
    ELSE Returned(s, [Time |-> s.b, OK |-> TRUE])

\* One pass of the loop of bisect (or its exit with the midpoint).
bisectLoop(s) ==
    IF s.b - s.a > s.arg.tol
    THEN LET mid == s.a + GoDiv(s.b - s.a, 2)
             altM == AltitudeFunc(s.arg.f, mid) - s.arg.targetDeg
         IN IF hasCrossing(s.altA, altM, s.arg.eventType)
            THEN Evaluated([s EXCEPT !.b = mid, !.altB = altM], 1)
            ELSE Evaluated([s EXCEPT !.a = mid, !.altA = altM], 1)
    ELSE Returned(s, [Time |-> s.a + GoDiv(s.b - s.a, 2), OK |-> TRUE])

\* The element of a singleton.  A result bound as v \in {e} is computed once,
\* however often v is used.
The(S) == CHOOSE v \in S : TRUE

\* One pass of the loop frame s is in; a frame that has returned stays.
step(s) ==
    CASE s.pc = "scan" -> scan(s)
      [] s.pc = "bisect" -> bisectLoop(s)
      [] OTHER -> s

\* n passes from frame s on (n >= 1), as two halves.
RECURSIVE Passes(_, _)
Passes(s, n) ==
    IF n = 1
    THEN The({step(fr) : fr \in {s}})
    ELSE The({Passes(fr, n - n \div 2) : fr \in {Passes(s, n \div 2)}})

\* The frame a call ends in when its loops run from frame s on.
RECURSIVE RunSolver(_)
RunSolver(s) ==
    The({IF fr.pc \in {"scan", "bisect"} THEN RunSolver(fr) ELSE fr :
         fr \in {Passes(s, 16)}})

\* A whole call, as the orchestrator makes it: the frame it ends in.
FindAltitudeEvent(f, start, end, targetDeg, eventType, steps, tol) ==
    RunSolver(FindAltitudeEventEnter(f, start, end, targetDeg, eventType, steps, tol))

\* ------------------------------------------------- direct solver calls

Waves ==
    {[kind |-> "wave", peak |-> p, slope |-> sl, noon |-> n, period |-> per] :
        p \in 1..3, sl \in 0..2, n \in {0, 3, MaxT}, per \in {4, 4 * MaxT}}

NoApi == [op |-> "none"]

CallFindAltitudeEvent ==
    /\ sv.pc = "idle"
    /\ api = NoApi
    /\ \E f \in Waves, start \in {0, 2}, end \in {0, 2, MaxT},
          targetDeg \in {0, 1}, eventType \in 0..2,
          steps \in {-1, 0, 1, 2, 3, MaxSteps}, tol \in 0..MaxTol :
          sv' = FindAltitudeEventEnter(f, start, end, targetDeg, eventType, steps, tol)
    /\ UNCHANGED <<api, trace, ret, j2000, tasks>>

ScanStep ==
    /\ sv.pc = "scan"
    /\ sv' = scan(sv)
    /\ UNCHANGED <<api, trace, ret, j2000, tasks>>

BisectStep ==
    /\ sv.pc = "bisect"
    /\ sv' = bisectLoop(sv)
    /\ UNCHANGED <<api, trace, ret, j2000, tasks>>

SolverReturn ==
    /\ sv.pc = "done"
    /\ sv' = SolverIdle
    /\ UNCHANGED <<api, trace, ret, j2000, tasks>>

\* ------------------------------------------------------- internal/sun

StandardZenith == 90833
SunSteps == 48
SunTol == 30

\* eventsForDateAtAltitude searching the 24 hours that start at the instant
\* `date` itself.
eventsForDateAtAltitudeFromInstant(lat, lon, date, targetAlt, sky) ==
    LET loc == date.loc
        startLocal == date
        endLocal == Add(startLocal, 24 * Hour)
        altFunc == [kind |-> "sun", lat |-> lat, lon |-> lon, decl |-> sky.decl,
                    rate |-> sky.rate]
    IN The({[rise |-> IF riseRes.res.OK
                      THEN UTC([abs |-> riseRes.res.Time, loc |-> loc])
                      ELSE ZeroTime,
             set |-> IF setRes.res.OK
                     THEN UTC([abs |-> setRes.res.Time, loc |-> loc])
                     ELSE ZeroTime,
             okRise |-> riseRes.res.OK,
             okSet |-> setRes.res.OK,
             searches |-> <<riseRes, setRes>>] :
            riseRes \in {FindAltitudeEvent(altFunc, startLocal.abs, endLocal.abs,
                                           targetAlt, CrossingUp, SunSteps, SunTol)},
            setRes \in {FindAltitudeEvent(altFunc, startLocal.abs, endLocal.abs,
                                          targetAlt, CrossingDown, SunSteps, SunTol)}})

\* eventsForDateAtAltitude: the upward and the downward crossing of targetAlt
\* in the 24 hours that start at local midnight of date's calendar date.
eventsForDateAtAltitude(lat, lon, date, targetAlt, sky) ==
    LET loc == date.loc
        startLocal == Date(DateOf(date), 0, loc)
        endLocal == Add(startLocal, 24 * Hour)
        altFunc == [kind |-> "sun", lat |-> lat, lon |-> lon, decl |-> sky.decl,
                    rate |-> sky.rate]
    IN The({[rise |-> IF riseRes.res.OK
                      THEN UTC([abs |-> riseRes.res.Time, loc |-> loc])
                      ELSE ZeroTime,
             set |-> IF setRes.res.OK
                     THEN UTC([abs |-> setRes.res.Time, loc |-> loc])
                     ELSE ZeroTime,
             okRise |-> riseRes.res.OK,
             okSet |-> setRes.res.OK,
             searches |-> <<riseRes, setRes>>] :
            riseRes \in {FindAltitudeEvent(altFunc, startLocal.abs, endLocal.abs,
                                           targetAlt, CrossingUp, SunSteps, SunTol)},
            setRes \in {FindAltitudeEvent(altFunc, startLocal.abs, endLocal.abs,
                                          targetAlt, CrossingDown, SunSteps, SunTol)}})

SunRiseSetForDate(lat, lon, date, zenith, sky) ==
    eventsForDateAtAltitude(lat, lon, date, 90000 - zenith, sky)

TwilightForDate(lat, lon, date, targetAlt, sky) ==
    eventsForDateAtAltitude(lat, lon, date, targetAlt, sky)

\* ------------------------------------------------------ internal/moon

MoonSteps == 48
MoonTol == 30

\* RiseSetForDate looking for the set at the horizon of the rise.
MoonRiseSetForDateOneHorizon(lat, lon, date, sky) ==
    LET loc == date.loc
        startLocal == Date(DateOf(date), 0, loc)
        endLocal == Add(startLocal, 24 * Hour)
        altFuncRise == [kind |-> "moonRise", lat |-> lat, lon |-> lon,
                        decl |-> sky.decl, lag |-> sky.lag, dist |-> sky.dist]
        altFuncSet == [kind |-> "moonRise", lat |-> lat, lon |-> lon,
                       decl |-> sky.decl, lag |-> sky.lag, dist |-> sky.dist]
    IN The({[rise |-> IF riseRes.res.OK
                      THEN UTC([abs |-> riseRes.res.Time, loc |-> loc])
                      ELSE ZeroTime,
             set |-> IF setRes.res.OK
                     THEN UTC([abs |-> setRes.res.Time, loc |-> loc])
                     ELSE ZeroTime,
             okRise |-> riseRes.res.OK,
             okSet |-> setRes.res.OK,
             searches |-> <<riseRes, setRes>>] :
            riseRes \in {FindAltitudeEvent(altFuncRise, startLocal.abs, endLocal.abs,
                                           0, CrossingUp, MoonSteps, MoonTol)},
            setRes \in {FindAltitudeEvent(altFuncSet, startLocal.abs, endLocal.abs,
                                          0, CrossingDown, MoonSteps, MoonTol)}})

MoonRiseSetForDate(lat, lon, date, sky) ==
    LET loc == date.loc
        startLocal == Date(DateOf(date), 0, loc)
        endLocal == Add(startLocal, 24 * Hour)
        altFuncRise == [kind |-> "moonRise", lat |-> lat, lon |-> lon,
                        decl |-> sky.decl, lag |-> sky.lag, dist |-> sky.dist]
        altFuncSet == [kind |-> "moonSet", lat |-> lat, lon |-> lon,
                       decl |-> sky.decl, lag |-> sky.lag, dist |-> sky.dist]
    IN The({[rise |-> IF riseRes.res.OK
                      THEN UTC([abs |-> riseRes.res.Time, loc |-> loc])
                      ELSE ZeroTime,
             set |-> IF setRes.res.OK
                     THEN UTC([abs |-> setRes.res.Time, loc |-> loc])
                     ELSE ZeroTime,
             okRise |-> riseRes.res.OK,
             okSet |-> setRes.res.OK,
             searches |-> <<riseRes, setRes>>] :
            riseRes \in {FindAltitudeEvent(altFuncRise, startLocal.abs, endLocal.abs,
                                           0, CrossingUp, MoonSteps, MoonTol)},
            setRes \in {FindAltitudeEvent(altFuncSet, startLocal.abs, endLocal.abs,
                                          0, CrossingDown, MoonSteps, MoonTol)}})

\* ------------------------------------------------------- orchestrator

Sun == 0
Moon == 1
TwilightCivil == 0
TwilightNautical == 1
TwilightAstronomical == 2

ZeroRiseSet == [Rise |-> ZeroTime, Set |-> ZeroTime]
ZeroWindow == [Start |-> ZeroTime, End |-> ZeroTime]
ZeroPhases ==
    [Morning |-> ZeroWindow, Evening |-> ZeroWindow,
     HasMorning |-> FALSE, HasEvening |-> FALSE]

ZeroMoonPhase ==
    [Time |-> ZeroTime, Fraction |-> 0, Elongation |-> 0, Waxing |-> FALSE,
     Name |-> ""]

\* The values a call can hand back: a RiseSet, a DaylightPhases, a MoonPhase,
\* a number of hours (kept in seconds), the angles it computed, and the error.
NoRet ==
    [rs |-> ZeroRiseSet, phases |-> ZeroPhases, moon |-> ZeroMoonPhase,
     hours |-> 0, angle |-> <<>>, err |-> "none"]

\* What a call hands back (the value, the error) and the searches it made.
Out(rs, phases, err, searches) ==
    [ret |-> [NoRet EXCEPT !.rs = rs, !.phases = phases, !.err = err],
     searches |-> searches]

\* withLocalDate that leaves the calendar date of t as it is.
withLocalDateUnpinned(t, day) == t

\* withLocalDate: the clock reading of t on the calendar date `day`, in t's
\* location.
withLocalDate(t, day) == Date(day, ClockOf(t), t.loc)

\* sunRiseSet lowering the horizon by a thousandth of a degree per metre of
\* elevation.
sunRiseSetWithDip(loc, date, sky) ==
    LET locTZ == date.loc
        day == DateOf(date)
    IN The({IF ~ev.okRise /\ ~ev.okSet
            THEN Out(ZeroRiseSet, ZeroPhases, "ErrNoRiseNoSet", ev.searches)
            ELSE Out([Rise |-> IF ev.okRise
                               THEN withLocalDate(In(ev.rise, locTZ), day)
                               ELSE ZeroTime,
                      Set |-> IF ev.okSet
                              THEN withLocalDate(In(ev.set, locTZ), day)
                              ELSE ZeroTime],
                     ZeroPhases, "nil", ev.searches) :
            ev \in {SunRiseSetForDate(loc.Lat, loc.Lon, date, StandardZenith + loc.Elevation, sky)}})

sunRiseSet(loc, date, sky) ==
    LET locTZ == date.loc
        day == DateOf(date)
    IN The({IF ~ev.okRise /\ ~ev.okSet
            THEN Out(ZeroRiseSet, ZeroPhases, "ErrNoRiseNoSet", ev.searches)
            ELSE Out([Rise |-> IF ev.okRise
                               THEN withLocalDate(In(ev.rise, locTZ), day)
                               ELSE ZeroTime,
                      Set |-> IF ev.okSet
                              THEN withLocalDate(In(ev.set, locTZ), day)
                              ELSE ZeroTime],
                     ZeroPhases, "nil", ev.searches) :
            ev \in {SunRiseSetForDate(loc.Lat, loc.Lon, date, StandardZenith, sky)}})

\* moonRiseSet giving up as soon as one of the two events is missing.
moonRiseSetBothNeeded(loc, date, sky) ==
    LET locTZ == date.loc
        day == DateOf(date)
    IN The({IF ~ev.okRise \/ ~ev.okSet
            THEN Out(ZeroRiseSet, ZeroPhases, "ErrNoRiseNoSet", ev.searches)
            ELSE Out([Rise |-> withLocalDate(In(ev.rise, locTZ), day),
                      Set |-> withLocalDate(In(ev.set, locTZ), day)],
                     ZeroPhases, "nil", ev.searches) :
            ev \in {MoonRiseSetForDate(loc.Lat, loc.Lon, date, sky)}})

moonRiseSet(loc, date, sky) ==
    LET locTZ == date.loc
        day == DateOf(date)
    IN The({IF ~ev.okRise /\ ~ev.okSet
            THEN Out(ZeroRiseSet, ZeroPhases, "ErrNoRiseNoSet", ev.searches)
            ELSE Out([Rise |-> IF ev.okRise
                               THEN withLocalDate(In(ev.rise, locTZ), day)
                               ELSE ZeroTime,
                      Set |-> IF ev.okSet
                              THEN withLocalDate(In(ev.set, locTZ), day)
                              ELSE ZeroTime],
                     ZeroPhases, "nil", ev.searches) :
            ev \in {MoonRiseSetForDate(loc.Lat, loc.Lon, date, sky)}})

\* RiseSetFor treating every body that is not the Moon as the Sun.
RiseSetForDefaultSun(body, loc, date, sky) ==
    CASE body = Moon -> moonRiseSet(loc, date, sky)
      [] OTHER -> sunRiseSet(loc, date, sky)

RiseSetFor(body, loc, date, sky) ==
    CASE body = Sun -> sunRiseSet(loc, date, sky)
      [] body = Moon -> moonRiseSet(loc, date, sky)
      [] OTHER -> Out(ZeroRiseSet, ZeroPhases, "unknown body", <<>>)

TwilightFor(loc, date, kind, sky) ==
    LET locTZ == date.loc
        day == DateOf(date)
    IN IF kind \notin {TwilightCivil, TwilightNautical, TwilightAstronomical}
       THEN Out(ZeroRiseSet, ZeroPhases, "unknown TwilightKind", <<>>)
       ELSE LET targetAlt == CASE kind = TwilightCivil -> -6000
                               [] kind = TwilightNautical -> -12000
                               [] kind = TwilightAstronomical -> -18000
            IN The({IF ~ev.okRise /\ ~ev.okSet
                    THEN Out(ZeroRiseSet, ZeroPhases, "ErrNoRiseNoSet", ev.searches)
                    ELSE Out([Rise |-> IF ev.okRise
                                       THEN withLocalDate(In(ev.rise, locTZ), day)
                                       ELSE ZeroTime,
                              Set |-> IF ev.okSet
                                      THEN withLocalDate(In(ev.set, locTZ), day)
                                      ELSE ZeroTime],
                             ZeroPhases, "nil", ev.searches) :
                    ev \in {TwilightForDate(loc.Lat, loc.Lon, date, targetAlt, sky)}})

\* GoldenHourFor reporting a window whenever both of its crossings were found.
GoldenHourForAnyOrder(loc, date, sky) ==
    LET lowAlt == -4000
        highAlt == 6000
        locTZ == date.loc
        day == DateOf(date)
    IN The({
            LET mStart == withLocalDate(In(low.rise, locTZ), day)
                mEnd == withLocalDate(In(high.rise, locTZ), day)
                hasMorning == low.okRise /\ high.okRise
                eStart == withLocalDate(In(high.set, locTZ), day)
                eEnd == withLocalDate(In(low.set, locTZ), day)
                hasEvening == high.okSet /\ low.okSet
                searches == low.searches \o high.searches
            IN IF ~hasMorning /\ ~hasEvening
               THEN Out(ZeroRiseSet, ZeroPhases, "ErrNoRiseNoSet", searches)
               ELSE Out(ZeroRiseSet,
                        [Morning |-> IF hasMorning
                                     THEN [Start |-> mStart, End |-> mEnd]
                                     ELSE ZeroWindow,
                         Evening |-> IF hasEvening
                                     THEN [Start |-> eStart, End |-> eEnd]
                                     ELSE ZeroWindow,
                         HasMorning |-> hasMorning,
                         HasEvening |-> hasEvening],
                        "nil", searches) :
            low \in {TwilightForDate(loc.Lat, loc.Lon, date, lowAlt, sky)},
            high \in {TwilightForDate(loc.Lat, loc.Lon, date, highAlt, sky)}})

\* GoldenHourFor with its windows between the horizon and highAlt.
GoldenHourForFromHorizon(loc, date, sky) ==
    LET lowAlt == 0
        highAlt == 6000
        locTZ == date.loc
        day == DateOf(date)
    IN The({
            LET mStart == withLocalDate(In(low.rise, locTZ), day)
                mEnd == withLocalDate(In(high.rise, locTZ), day)
                hasMorning == low.okRise /\ high.okRise /\ After(mEnd, mStart)
                eStart == withLocalDate(In(high.set, locTZ), day)
                eEnd == withLocalDate(In(low.set, locTZ), day)
                hasEvening == high.okSet /\ low.okSet /\ After(eEnd, eStart)
                searches == low.searches \o high.searches
            IN IF ~hasMorning /\ ~hasEvening
               THEN Out(ZeroRiseSet, ZeroPhases, "ErrNoRiseNoSet", searches)
               ELSE Out(ZeroRiseSet,
                        [Morning |-> IF hasMorning
                                     THEN [Start |-> mStart, End |-> mEnd]
                                     ELSE ZeroWindow,
                         Evening |-> IF hasEvening
                                     THEN [Start |-> eStart, End |-> eEnd]
                                     ELSE ZeroWindow,
                         HasMorning |-> hasMorning,
                         HasEvening |-> hasEvening],
                        "nil", searches) :
            low \in {TwilightForDate(loc.Lat, loc.Lon, date, lowAlt, sky)},
            high \in {TwilightForDate(loc.Lat, loc.Lon, date, highAlt, sky)}})

\* The morning window runs from the upward crossing of lowAlt to that of
\* highAlt, the evening window from the downward crossing of highAlt to that of
\* lowAlt; each is kept when both crossings were found and, converted and
\* re-dated, its end is after its start.
GoldenHourFor(loc, date, sky) ==
    LET lowAlt == -4000
        highAlt == 6000
        locTZ == date.loc
        day == DateOf(date)
    IN The({
            LET mStart == withLocalDate(In(low.rise, locTZ), day)
                mEnd == withLocalDate(In(high.rise, locTZ), day)
                hasMorning == low.okRise /\ high.okRise /\ After(mEnd, mStart)
                eStart == withLocalDate(In(high.set, locTZ), day)
                eEnd == withLocalDate(In(low.set, locTZ), day)
                hasEvening == high.okSet /\ low.okSet /\ After(eEnd, eStart)
                searches == low.searches \o high.searches
            IN IF ~hasMorning /\ ~hasEvening
               THEN Out(ZeroRiseSet, ZeroPhases, "ErrNoRiseNoSet", searches)
               ELSE Out(ZeroRiseSet,
                        [Morning |-> IF hasMorning
                                     THEN [Start |-> mStart, End |-> mEnd]
                                     ELSE ZeroWindow,
                         Evening |-> IF hasEvening
                                     THEN [Start |-> eStart, End |-> eEnd]
                                     ELSE ZeroWindow,
                         HasMorning |-> hasMorning,
                         HasEvening |-> hasEvening],
                        "nil", searches) :
            low \in {TwilightForDate(loc.Lat, loc.Lon, date, lowAlt, sky)},
            high \in {TwilightForDate(loc.Lat, loc.Lon, date, highAlt, sky)}})

\* BlueHourFor answering with empty phases and no error when it has no window.
BlueHourForNeverFails(loc, date, sky) ==
    LET lowAlt == -6000
        highAlt == -4000
        locTZ == date.loc
        day == DateOf(date)
    IN The({
            LET mStart == withLocalDate(In(low.rise, locTZ), day)
                mEnd == withLocalDate(In(high.rise, locTZ), day)
                hasMorning == low.okRise /\ high.okRise /\ After(mEnd, mStart)
                eStart == withLocalDate(In(high.set, locTZ), day)
                eEnd == withLocalDate(In(low.set, locTZ), day)
                hasEvening == high.okSet /\ low.okSet /\ After(eEnd, eStart)
                searches == low.searches \o high.searches
            IN IF ~hasMorning /\ ~hasEvening
               THEN Out(ZeroRiseSet, ZeroPhases, "nil", searches)
               ELSE Out(ZeroRiseSet,
                        [Morning |-> IF hasMorning
                                     THEN [Start |-> mStart, End |-> mEnd]
                                     ELSE ZeroWindow,
                         Evening |-> IF hasEvening
                                     THEN [Start |-> eStart, End |-> eEnd]
                                     ELSE ZeroWindow,
                         HasMorning |-> hasMorning,
                         HasEvening |-> hasEvening],
                        "nil", searches) :
            low \in {TwilightForDate(loc.Lat, loc.Lon, date, lowAlt, sky)},
            high \in {TwilightForDate(loc.Lat, loc.Lon, date, highAlt, sky)}})

BlueHourFor(loc, date, sky) ==
    LET lowAlt == -6000
        highAlt == -4000
        locTZ == date.loc
        day == DateOf(date)
    IN The({
            LET mStart == withLocalDate(In(low.rise, locTZ), day)
                mEnd == withLocalDate(In(high.rise, locTZ), day)
                hasMorning == low.okRise /\ high.okRise /\ After(mEnd, mStart)
                eStart == withLocalDate(In(high.set, locTZ), day)
                eEnd == withLocalDate(In(low.set, locTZ), day)
                hasEvening == high.okSet /\ low.okSet /\ After(eEnd, eStart)
                searches == low.searches \o high.searches
            IN IF ~hasMorning /\ ~hasEvening
               THEN Out(ZeroRiseSet, ZeroPhases, "ErrNoRiseNoSet", searches)
               ELSE Out(ZeroRiseSet,
                        [Morning |-> IF hasMorning
                                     THEN [Start |-> mStart, End |-> mEnd]
                                     ELSE ZeroWindow,
                         Evening |-> IF hasEvening
                                     THEN [Start |-> eStart, End |-> eEnd]
                                     ELSE ZeroWindow,
                         HasMorning |-> hasMorning,
                         HasEvening |-> hasEvening],
                        "nil", searches) :
            low \in {TwilightForDate(loc.Lat, loc.Lon, date, lowAlt, sky)},
            high \in {TwilightForDate(loc.Lat, loc.Lon, date, highAlt, sky)}})

\* t.Sub(u), in seconds.  The instants of the model are days apart, far from
\* the 292 years at which a Duration saturates.
Sub(t, u) == t.abs - u.abs

SlideIntoSunset(loc, date, sky) == RiseSetFor(Sun, loc, date, sky)

\* DaylightHours: Set - Rise of the Sun's RiseSet, or 0 with the error of
\* RiseSetFor.  Duration.Hours() is left undone: the value is in seconds.
DaylightHours(loc, date, sky) ==
    The({IF out.ret.err # "nil"
         THEN [out EXCEPT !.ret.rs = ZeroRiseSet, !.ret.hours = 0]
         ELSE [out EXCEPT !.ret.rs = ZeroRiseSet,
                          !.ret.hours = Sub(out.ret.rs.Set, out.ret.rs.Rise)] :
         out \in {SlideIntoSunset(loc, date, sky)}})

\* math.Mod: the remainder has the sign of the dividend.
GoMod(x, y) == x - y * GoDiv(x, y)

\* The floats.  A float is an integer that has at most Mantissa significant
\* bits; the sum or difference of two floats is rounded to the nearest float,
\* a tie to the one whose last bit is 0.  Ulp(x) is the distance between the
\* floats around x >= 0.
RECURSIVE Ulp(_)
Ulp(x) == IF x < 2 ^ Mantissa THEN 1 ELSE 2 * Ulp(x \div 2)

Float(x) ==
    LET m == Abs(x)
        u == Ulp(m)
        q == m \div u
        r == m % u
        n == IF 2 * r < u THEN q
             ELSE IF 2 * r > u THEN q + 1
             ELSE IF q % 2 = 0 THEN q ELSE q + 1
    IN IF x < 0 THEN -(n * u) ELSE n * u

\* One degree and one hour in the unit the floats count: with 360 degrees and
\* 24 hours as far up the scale as they are for float64, past the point from
\* which odd numbers are not floats.
Deg == 2 ^ (Mantissa - 8)
Hr == 2 ^ (Mantissa - 4)

\* timeutil.Normalize360.  math.Mod is exact; the sum is rounded.
Normalize360(d) ==
    LET m == GoMod(d, 360 * Deg)
    IN IF m < 0 THEN Float(m + 360 * Deg) ELSE m

\* timeutil.Normalize24.
Normalize24(h) ==
    LET m == GoMod(h, 24 * Hr)
    IN IF m < 0 THEN Float(m + 24 * Hr) ELSE m

\* The wrap of an hour angle with its first loop only.
hourAngleOneLoop(lst, ra) ==
    LET RECURSIVE down(_)
        down(H) == IF H > 180 * Deg THEN down(Float(H - 360 * Deg)) ELSE H
    IN down(Float(lst - ra))

\* apparentAltitude, the hour angle: H := lst - ra, then
\* for H > pi { H -= 2*pi } and for H < -pi { H += 2*pi }.
hourAngle(lst, ra) ==
    LET RECURSIVE down(_)
        down(H) == IF H > 180 * Deg THEN down(Float(H - 360 * Deg)) ELSE H
        RECURSIVE up(_)
        up(H) == IF H < -(180 * Deg) THEN up(Float(H + 360 * Deg)) ELSE H
    IN up(down(Float(lst - ra)))

\* classifyMoonPhaseName naming every quarter the first.
classifyMoonPhaseNameOneQuarter(f, waxing) ==
    LET eps == 10
        quarterTol == 50
    IN CASE f < eps -> "New Moon"
         [] f > 1000 - eps -> "Full Moon"
         [] Abs(f - 500) < quarterTol -> "First Quarter"
         [] f < 500 -> IF waxing THEN "Waxing Crescent" ELSE "Waning Crescent"
         [] OTHER -> IF waxing THEN "Waxing Gibbous" ELSE "Waning Gibbous"

\* classifyMoonPhaseName, with f in thousandths.
classifyMoonPhaseName(f, waxing) ==
    LET eps == 10
        quarterTol == 50
    IN CASE f < eps -> "New Moon"
         [] f > 1000 - eps -> "Full Moon"
         [] Abs(f - 500) < quarterTol ->
                IF waxing THEN "First Quarter" ELSE "Last Quarter"
         [] f < 500 -> IF waxing THEN "Waxing Crescent" ELSE "Waning Crescent"
         [] OTHER -> IF waxing THEN "Waxing Gibbous" ELSE "Waning Gibbous"

\* MoonPhaseAt without its two clamps.
MoonPhaseAtUnclamped(t, eph) ==
    LET cosPsi == eph.cosPsi
        elongDeg == 90 - GoDiv(90 * cosPsi, 500)
        fraction == 500 - cosPsi
        sepDeg == Normalize360((eph.raMoon - eph.raSun) * Deg)
        waxing == sepDeg < 180 * Deg
        name == classifyMoonPhaseName(fraction, waxing)
    IN [ret |-> [NoRet EXCEPT !.moon = [Time |-> t, Fraction |-> fraction,
                                        Elongation |-> elongDeg,
                                        Waxing |-> waxing, Name |-> name],
                              !.err = "nil"],
        searches |-> <<>>]

\* MoonPhaseAt.  eph is what the two ephemerides and the cosine formula give at
\* t: the right ascensions in degrees and cos psi in 500ths, which rounding
\* can leave a little outside [-1, 1].  acos is taken as linear.
MoonPhaseAt(t, eph) ==
    LET cosPsi == IF eph.cosPsi > 500 THEN 500
                  ELSE IF eph.cosPsi < -500 THEN -500 ELSE eph.cosPsi
        elongDeg == 90 - GoDiv(90 * cosPsi, 500)
        half == 500 - cosPsi
        fraction == IF half < 0 THEN 0 ELSE IF half > 1000 THEN 1000 ELSE half
        sepDeg == Normalize360((eph.raMoon - eph.raSun) * Deg)
        waxing == sepDeg < 180 * Deg
        name == classifyMoonPhaseName(fraction, waxing)
    IN [ret |-> [NoRet EXCEPT !.moon = [Time |-> t, Fraction |-> fraction,
                                        Elongation |-> elongDeg,
                                        Waxing |-> waxing, Name |-> name],
                              !.err = "nil"],
        searches |-> <<>>]

\* ---------------------------------------------------- orchestrator calls

Elevations == {0, 1500}

\* Places at sea level, and one on a height.
Coordinates ==
    {[Lat |-> la, Lon |-> lo, Elevation |-> 0] :
        la \in {-80, 0, 33, 66}, lo \in {-112, 0, 90, 180}}
    \cup {[Lat |-> 33, Lon |-> -112, Elevation |-> el] : el \in Elevations}

\* The date argument: some time of day on a day around the offset change.
Dates ==
    {Date(d, c, z) : d \in {DSTDay - 1, DSTDay}, c \in {0, 13 * Hour}, z \in Zones}

\* The ephemeris of the day: the declination of the body, and for the Moon its
\* delay behind the Sun and its distance in km.
SunSkies ==
    {[decl |-> de, rate |-> 0, lag |-> 0, dist |-> 384400] :
        de \in {-23000, 0, 23000}}
    \cup {[decl |-> 0, rate |-> 400, lag |-> 0, dist |-> 384400]}
MoonSkies ==
    {[decl |-> de, lag |-> la, dist |-> di] :
        de \in {-23000, 0, 23000}, la \in {0, 7 * Hour},
        di \in {0, 363300, 405500}}

Ready == sv.pc = "idle" /\ api = NoApi

Answer(call, out) ==
    /\ api' = call
    /\ trace' = out.searches
    /\ ret' = out.ret
    /\ UNCHANGED <<sv, j2000, tasks>>

CallRiseSetFor ==
    /\ Ready
    /\ \E body \in {Sun, Moon, 2}, loc \in Coordinates, date \in Dates :
        \E sky \in (IF body = Moon THEN MoonSkies ELSE SunSkies) :
            \E out \in {RiseSetFor(body, loc, date, sky)} :
                Answer([op |-> "RiseSetFor", body |-> body, kind |-> 0, loc |-> loc,
                        date |-> date, sky |-> sky], out)

CallTwilightFor ==
    /\ Ready
    /\ \E kind \in 0..3, loc \in Coordinates, date \in Dates, sky \in SunSkies :
        \E out \in {TwilightFor(loc, date, kind, sky)} :
            Answer([op |-> "TwilightFor", body |-> Sun, kind |-> kind, loc |-> loc,
                    date |-> date, sky |-> sky], out)

CallGoldenHourFor ==
    /\ Ready
    /\ \E loc \in Coordinates, date \in Dates, sky \in SunSkies :
        \E out \in {GoldenHourFor(loc, date, sky)} :
            Answer([op |-> "GoldenHourFor", body |-> Sun, kind |-> 0, loc |-> loc,
                    date |-> date, sky |-> sky], out)

CallBlueHourFor ==
    /\ Ready
    /\ \E loc \in Coordinates, date \in Dates, sky \in SunSkies :
        \E out \in {BlueHourFor(loc, date, sky)} :
            Answer([op |-> "BlueHourFor", body |-> Sun, kind |-> 0, loc |-> loc,
                    date |-> date, sky |-> sky], out)

CallDaylightHours ==
    /\ Ready
    /\ \E loc \in Coordinates, date \in Dates, sky \in SunSkies :
        \E out \in {DaylightHours(loc, date, sky)} :
            Answer([op |-> "DaylightHours", body |-> Sun, kind |-> 0, loc |-> loc,
                    date |-> date, sky |-> sky], out)

\* What the ephemerides and the cosine formula can give: any right ascensions,
\* any cosine from a little below -1 to a little above 1.
Ephemerides ==
    {[cosPsi |-> c, raMoon |-> m, raSun |-> su] :
        c \in (-(500 + MaxDrift))..(500 + MaxDrift),
        m \in {0, 90, 270}, su \in {0, 180, 359}}

CallMoonPhaseAt ==
    /\ Ready
    /\ \E t \in {Date(DSTDay, 13 * Hour, z) : z \in {"UTC", "Phoenix"}},
          eph \in Ephemerides :
        \E out \in {MoonPhaseAt(t, eph)} :
            Answer([op |-> "MoonPhaseAt", t |-> t, eph |-> eph], out)

\* ------------------------------------------------------ angle functions

\* Angles given to Normalize360: whole turns, whole degrees on both sides of
\* 0 and of a turn, and the floats next to 0.
Angles360 ==
    {k * Deg : k \in {-720, -361, -360, -359, -180, -1, 0, 1, 180, 359, 360,
                      361, 720}}
    \cup {-3, -2, -1, 1, 2, 3}

\* Hours given to Normalize24, likewise.
Hours24 ==
    {k * Hr : k \in {-48, -25, -24, -23, -12, -1, 0, 1, 12, 23, 24, 25, 48}}
    \cup {-3, -2, -1, 1, 2, 3}

\* Local sidereal times and right ascensions in [0, 360), whole degrees.
Sidereal == {k * Deg : k \in {0, 1, 90, 179, 180, 181, 270, 359}}

\* The correction of the Moon's right ascension for parallax, about a degree
\* either way.
Parallax == {-Deg, 0, Deg}

CallNormalize360 ==
    /\ Ready
    /\ \E d \in Angles360 :
        Answer([op |-> "Normalize360", d |-> d],
               [ret |-> [NoRet EXCEPT !.angle = <<Normalize360(d)>>],
                searches |-> <<>>])

CallNormalize24 ==
    /\ Ready
    /\ \E h \in Hours24 :
        Answer([op |-> "Normalize24", d |-> h],
               [ret |-> [NoRet EXCEPT !.angle = <<Normalize24(h)>>],
                searches |-> <<>>])

\* sun.apparentAltitude up to its hour angle.
CallSunHourAngle ==
    /\ Ready
    /\ \E lst \in Sidereal, ra \in Sidereal :
        Answer([op |-> "apparentAltitude", body |-> Sun, lst |-> lst,
                ra |-> <<ra>>],
               [ret |-> [NoRet EXCEPT !.angle = <<hourAngle(lst, ra)>>],
                searches |-> <<>>])

\* moon.apparentAltitude up to its two hour angles, the geocentric one and
\* the one recomputed with the topocentric right ascension.
CallMoonHourAngle ==
    /\ Ready
    /\ \E lst \in Sidereal, ra \in Sidereal, deltaAlpha \in Parallax :
        \E raTopo \in {Float(ra + deltaAlpha)} :
            Answer([op |-> "apparentAltitude", body |-> Moon, lst |-> lst,
                    ra |-> <<ra, raTopo>>],
                   [ret |-> [NoRet EXCEPT !.angle = <<hourAngle(lst, ra),
                                                     hourAngle(lst, raTopo)>>],
                    searches |-> <<>>])

\* The caller takes the answer; the next call starts from nothing.
ApiReturn ==
    /\ api # NoApi
    /\ api' = NoApi
    /\ trace' = <<>>
    /\ ret' = NoRet
    /\ UNCHANGED <<sv, j2000, tasks>>

\* --------------------------------------------------- concurrent queries

\* Bound: the goroutines that run queries at the same time.
MaxGo == 2

Goroutines == 1..MaxGo

\* var j2000 = time.Date(2000, time.January, 1, 12, 0, 0, 0, time.UTC): noon
\* UTC of the day the model counts from.
J2000 == Date(0, 12 * Hour, "UTC")

\* What a query computes when DaysSinceJ2000 reads `epoch` from j2000:
\* t.UTC().Sub(epoch) is smaller by the slip of the epoch, so the ephemerides
\* give the sky of that much earlier.  The Sun and the Moon culminate later by
\* the slip, the Sun's declination is the one of the earlier instant, and the
\* right ascensions (the Moon gains 13 degrees a day, the Sun 1) fall back.
Seen(call, epoch) ==
    LET slip == Sub(epoch, J2000)
    IN CASE call.op = "MoonPhaseAt" ->
              [call EXCEPT
                  !.eph.raMoon =
                      Normalize360((@ - GoDiv(13 * slip, Day)) * Deg) \div Deg,
                  !.eph.raSun =
                      Normalize360((@ - GoDiv(slip, Day)) * Deg) \div Deg]
         [] call.body = Moon -> [call EXCEPT !.sky.lag = @ + slip]
         [] OTHER ->
              [call EXCEPT
                  !.loc.Lon = @ - GoDiv(slip, 240),
                  !.sky.decl = @ - GoDiv(call.sky.rate * slip, Day)]

\* The query `call` answered on its own.
Query(call) ==
    IF call.op = "MoonPhaseAt"
    THEN The({MoonPhaseAt(t, eph).ret : t \in {call.t}, eph \in {call.eph}})
    ELSE The({CASE call.op = "RiseSetFor" -> RiseSetFor(body, loc, date, sky).ret
                [] call.op = "TwilightFor" -> TwilightFor(loc, date, kind, sky).ret
                [] call.op = "GoldenHourFor" -> GoldenHourFor(loc, date, sky).ret
                [] call.op = "BlueHourFor" -> BlueHourFor(loc, date, sky).ret :
                body \in {call.body}, kind \in {call.kind}, loc \in {call.loc},
                date \in {call.date}, sky \in {call.sky}})

\* A query reads j2000 at every position it computes.  The model takes two of
\* these reads: `first` before the rise (the morning window, the Moon's
\* position) is computed and `second` before the set (the evening window, the
\* Sun's position) is.
Run(call, first, second) ==
    The({IF Len(res) = 1
         THEN res[1]
         ELSE [res[2] EXCEPT !.rs.Rise = res[1].rs.Rise,
                             !.phases.Morning = res[1].phases.Morning,
                             !.phases.HasMorning = res[1].phases.HasMorning] :
            res \in {[i \in DOMAIN passes |-> Query(passes[i])] :
                passes \in {IF call.op = "MoonPhaseAt"
                            THEN <<[call EXCEPT !.eph.raMoon = before.eph.raMoon,
                                                !.eph.raSun = after.eph.raSun]>>
                            ELSE <<before, after>> :
                    before \in {Seen(call, first)},
                    after \in {Seen(call, second)}}}})

\* The queries the goroutines run: one of each kind, under a sky that changes
\* from day to day.
Queries ==
    LET loc == [Lat |-> 33, Lon |-> -112, Elevation |-> 0]
        date == Date(DSTDay, 13 * Hour, "Phoenix")
        sunSky == [decl |-> 0, rate |-> 400, lag |-> 0, dist |-> 384400]
        moonSky == [decl |-> 0, lag |-> 7 * Hour, dist |-> 363300]
    IN {[op |-> "RiseSetFor", body |-> Moon, kind |-> 0, loc |-> loc,
         date |-> date, sky |-> moonSky],
        [op |-> "TwilightFor", body |-> Sun, kind |-> TwilightCivil,
         loc |-> loc, date |-> date, sky |-> sunSky],
        [op |-> "GoldenHourFor", body |-> Sun, kind |-> 0, loc |-> loc,
         date |-> date, sky |-> sunSky],
        [op |-> "BlueHourFor", body |-> Sun, kind |-> 0, loc |-> loc,
         date |-> date, sky |-> sunSky],
        [op |-> "MoonPhaseAt", t |-> date,
         eph |-> [cosPsi |-> 100, raMoon |-> 90, raSun |-> 0]]}

\* The locals of a goroutine: where it is, the query it runs, the epoch its
\* first read gave, its result, and whether another query was under way when
\* it read the epoch again.
NoTask ==
    [pc |-> "idle", call |-> NoApi, first |-> ZeroTime, out |-> NoRet,
     among |-> FALSE]

UnderWay(g) == tasks[g].pc \in {"first", "second"}

\* go Query(...): goroutine g starts a query.
Go(g) ==
    /\ tasks[g].pc = "idle"
    /\ \E call \in Queries :
        tasks' = [tasks EXCEPT ![g] = [NoTask EXCEPT !.pc = "first", !.call = call]]
    /\ UNCHANGED <<sv, api, trace, ret, j2000>>

\* FirstRead that also moves the epoch to the instant of the query.
FirstReadMovingEpoch(g) ==
    /\ tasks[g].pc = "first"
    /\ tasks' = [tasks EXCEPT ![g].first = j2000, ![g].pc = "second"]
    /\ j2000' = IF tasks[g].call.op = "MoonPhaseAt"
                THEN tasks[g].call.t ELSE tasks[g].call.date
    /\ UNCHANGED <<sv, api, trace, ret>>

\* The first read of j2000 by the query of g.
FirstRead(g) ==
    /\ tasks[g].pc = "first"
    /\ tasks' = [tasks EXCEPT ![g].first = j2000, ![g].pc = "second"]
    /\ UNCHANGED <<sv, api, trace, ret, j2000>>

\* The second read of j2000 by the query of g, and the result.
SecondRead(g) ==
    /\ tasks[g].pc = "second"
    /\ \E call \in {tasks[g].call}, first \in {tasks[g].first}, second \in {j2000} :
       \E out \in {Run(call, first, second)} :
        tasks' = [tasks EXCEPT
                    ![g].out = out,
                    ![g].among = \E h \in Goroutines \ {g} : UnderWay(h),
                    ![g].pc = "done"]
    /\ UNCHANGED <<sv, api, trace, ret, j2000>>

\* The caller of g takes the result.
GoReturn(g) ==
    /\ tasks[g].pc = "done"
    /\ tasks' = [tasks EXCEPT ![g] = NoTask]
    /\ UNCHANGED <<sv, api, trace, ret, j2000>>

Init ==
    /\ sv = SolverIdle
    /\ api = NoApi
    /\ trace = <<>>
    /\ ret = NoRet
    /\ j2000 = J2000
    /\ tasks = [g \in Goroutines |-> NoTask]

Next ==
    \/ CallFindAltitudeEvent
    \/ ScanStep
    \/ BisectStep
    \/ SolverReturn
    \/ CallRiseSetFor
    \/ CallTwilightFor
    \/ CallGoldenHourFor
    \/ CallBlueHourFor
    \/ CallDaylightHours
    \/ CallMoonPhaseAt
    \/ ApiReturn

Spec == Init /\ [][Next]_vars

\* The angle functions under any sequence of calls.
AngleNext ==
    \/ CallNormalize360
    \/ CallNormalize24
    \/ CallSunHourAngle
    \/ CallMoonHourAngle
    \/ ApiReturn

AngleSpec == Init /\ [][AngleNext]_vars

\* Queries run side by side by the goroutines.
ConcurrentNext ==
    \E g \in Goroutines :
        \/ Go(g)
        \/ FirstRead(g)
        \/ SecondRead(g)
        \/ GoReturn(g)

ConcurrentSpec == Init /\ [][ConcurrentNext]_vars

\* The solver step by step, with the thread that runs it never starved.
FairSpec == Spec /\ WF_vars(ScanStep) /\ WF_vars(BisectStep)

\* ------------------------------------------------------------ claims

\* The direct call sv has returned.
SolverDone == sv.pc = "done"
Directional == sv.arg.eventType \in {CrossingUp, CrossingDown}

\* altitude - target of the direct call at instant t.
Rel(t) == AltitudeFunc(sv.arg.f, t) - sv.arg.targetDeg

\* C3: FindAltitudeEvent called with a window whose start is equal to or after
\* its end returns at once with OK = false, whatever the altitude function,
\* target, direction, sample count and tolerance.
C3_DegenerateWindowNotFound ==
    (sv.pc # "idle" /\ sv.arg.start >= sv.arg.end)
        => (sv.pc = "done" /\ sv.res.OK = FALSE)

C3_Witness ==
    /\ SolverDone
    /\ sv.arg.start > sv.arg.end
    /\ Rel(sv.arg.start) < 0
    /\ Rel(sv.arg.end) > 0
    /\ sv.arg.eventType = CrossingUp
    /\ ~sv.res.OK

\* The altitude really crosses the target in the requested direction somewhere
\* in the window: below it at some instant and at or above it at a later one
\* (Rising), above it and later at or below it (Setting).
RealCrossing ==
    \E a \in sv.arg.start..sv.arg.end, b \in sv.arg.start..sv.arg.end :
        /\ a < b
        /\ IF sv.arg.eventType = CrossingUp
           THEN Rel(a) < 0 /\ Rel(b) >= 0
           ELSE Rel(a) > 0 /\ Rel(b) <= 0

\* C4: FindAltitudeEvent returns OK = true only when the altitude function
\* crosses the target in the requested direction somewhere in the window.
C4_FoundOnlyRealCrossing ==
    (SolverDone /\ Directional /\ sv.res.OK) => RealCrossing

C4_Witness ==
    /\ SolverDone
    /\ Directional
    /\ sv.arg.start < sv.arg.end
    /\ sv.arg.f.slope > 0
    /\ \E t \in sv.arg.start..sv.arg.end : Rel(t) = 0
    /\ ~RealCrossing
    /\ ~sv.res.OK

\* The altitude function never turns around inside the window.
Monotonic ==
    \/ \A t \in sv.arg.start..(sv.arg.end - 1) : Rel(t) <= Rel(t + 1)
    \/ \A t \in sv.arg.start..(sv.arg.end - 1) : Rel(t) >= Rel(t + 1)

\* The instant at which a monotonic altitude function reaches the target from
\* the side the direction starts on.
TrueCrossing ==
    LET reached == {t \in sv.arg.start..sv.arg.end :
                      IF sv.arg.eventType = CrossingUp
                      THEN Rel(t) >= 0 ELSE Rel(t) <= 0}
    IN CHOOSE t \in reached : \A u \in reached : t <= u

\* C5: for a monotonic altitude function whose crossing is found, the instant
\* returned is within tol of the true crossing instant.
C5_MonotonicWithinTol ==
    (SolverDone /\ Directional /\ sv.res.OK /\ Monotonic)
        => Abs(sv.res.Time - TrueCrossing) <= sv.arg.tol

C5_Witness ==
    /\ SolverDone
    /\ Directional
    /\ sv.res.OK
    /\ Monotonic
    /\ sv.b - sv.a < sv.interval
    /\ sv.res.Time # TrueCrossing

\* The sample points of the direct call and the pairs of consecutive sample
\* points that bracket a crossing of the requested direction.
SampleCount == IF sv.arg.steps < 2 THEN 2 ELSE sv.arg.steps
SamplePoint(k) ==
    sv.arg.start + k * GoDiv(sv.arg.end - sv.arg.start, SampleCount - 1)
Brackets ==
    {k \in 1..(SampleCount - 1) :
        LET v1 == Rel(SamplePoint(k - 1))
            v2 == Rel(SamplePoint(k))
        IN CASE sv.arg.eventType = CrossingUp -> v1 < 0 /\ v2 >= 0
             [] sv.arg.eventType = CrossingDown -> v1 > 0 /\ v2 <= 0
             [] OTHER -> v1 * v2 <= 0}
FirstBracket == CHOOSE k \in Brackets : \A j \in Brackets : k <= j

\* C6: when several pairs of consecutive sample points bracket a crossing, the
\* instant returned lies inside the chronologically first pair.
C6_FirstBracketUsed ==
    (SolverDone /\ sv.arg.start < sv.arg.end /\ Cardinality(Brackets) >= 2)
        => /\ sv.res.OK
           /\ SamplePoint(FirstBracket - 1) <= sv.res.Time
           /\ sv.res.Time <= SamplePoint(FirstBracket)

C6_Witness ==
    /\ SolverDone
    /\ sv.arg.start < sv.arg.end
    /\ Cardinality(Brackets) >= 2
    /\ sv.res.OK
    /\ sv.res.Time < SamplePoint(FirstBracket)
    /\ sv.b - sv.a < sv.interval

\* C7: every call of FindAltitudeEvent terminates, for any altitude function,
\* window, sample count and tolerance.
C7_Terminates ==
    (sv.pc \in {"scan", "bisect"} /\ Directional) ~> (sv.pc = "done")

\* The call answered is one of RiseSetFor(Sun), RiseSetFor(Moon), TwilightFor
\* of a known kind: it made an upward search, then a downward search.
RiseSetCall ==
    \/ api.op = "RiseSetFor" /\ api.body \in {Sun, Moon}
    \/ api.op = "TwilightFor"
       /\ api.kind \in {TwilightCivil, TwilightNautical, TwilightAstronomical}
PhasesCall == api.op \in {"GoldenHourFor", "BlueHourFor"}

\* The instant search i of the call found, read in the requested timezone.
Found(i) == [abs |-> trace[i].res.Time, loc |-> api.date.loc]

\* C1: RiseSetFor (Sun, Moon) and TwilightFor return ErrNoRiseNoSet exactly
\* when neither the upward nor the downward crossing was found; otherwise the
\* error is nil, each found event is filled in and a missing one is the zero
\* time.
C1_NoRiseNoSetExactlyWhenNeitherFound ==
    RiseSetCall =>
        /\ ret.err \in {"nil", "ErrNoRiseNoSet"}
        /\ (ret.err = "ErrNoRiseNoSet")
             <=> (~trace[1].res.OK /\ ~trace[2].res.OK)
        /\ trace[1].res.OK => ~IsZero(ret.rs.Rise)
        /\ trace[2].res.OK => ~IsZero(ret.rs.Set)
        /\ ~trace[1].res.OK => ret.rs.Rise = ZeroTime
        /\ ~trace[2].res.OK => ret.rs.Set = ZeroTime

C1_Witness ==
    /\ api.op = "RiseSetFor"
    /\ api.body = Moon
    /\ trace[1].res.OK
    /\ ~trace[2].res.OK
    /\ ret.err = "nil"
    /\ ~IsZero(ret.rs.Rise)
    /\ ret.rs.Set = ZeroTime

\* The event times the call returned.
ReturnedTimes ==
    {t \in {ret.rs.Rise, ret.rs.Set,
            ret.phases.Morning.Start, ret.phases.Morning.End,
            ret.phases.Evening.Start, ret.phases.Evening.End} : ~IsZero(t)}

\* C2: every event time returned by RiseSetFor, TwilightFor, GoldenHourFor or
\* BlueHourFor, read in the timezone of the requested date, is on the requested
\* calendar date, and carries that timezone.
C2_ReturnedOnRequestedDate ==
    \A t \in ReturnedTimes :
        DateOf(t) = DateOf(api.date) /\ t.loc = api.date.loc

C2_Witness ==
    /\ api.op = "RiseSetFor"
    /\ api.body = Sun
    /\ trace[1].res.OK
    /\ DateOf(Found(1)) # DateOf(api.date)
    /\ ret.rs.Rise \in ReturnedTimes
    /\ DateOf(ret.rs.Rise) = DateOf(api.date)

\* C8: RiseSetFor with a body that is neither Sun nor Moon, and TwilightFor with
\* an unknown kind, return an error other than ErrNoRiseNoSet and an empty
\* RiseSet, and start no solver search.
C8_UnknownEnumRejected ==
    (\/ api.op = "RiseSetFor" /\ api.body \notin {Sun, Moon}
     \/ api.op = "TwilightFor"
        /\ api.kind \notin {TwilightCivil, TwilightNautical, TwilightAstronomical})
        => /\ ret.err \notin {"nil", "ErrNoRiseNoSet", "none"}
           /\ ret.rs = ZeroRiseSet
           /\ trace = <<>>

C8_Witness ==
    /\ api.op = "RiseSetFor"
    /\ api.body = 2
    /\ ret.err = "unknown body"

\* The first instant whose calendar date in location l is d: local 00:00 of d,
\* or the instant the clocks jump onto d.
StartOfDay(d, l) ==
    LET on(u) == DateOf([abs |-> u, loc |-> l]) = d
        begins == {u \in {d * Day - Rules(l).o1, d * Day - Rules(l).o2, Rules(l).at} :
                     on(u) /\ ~on(u - 1)}
    IN CHOOSE u \in begins : \A v \in begins : u <= v

\* C9: every search window is the local civil day of the requested date, from
\* local 00:00 of that date to local 00:00 of the next, so every instant found
\* is on the requested local calendar date.
C9_WindowIsLocalCivilDay ==
    \A i \in 1..Len(trace) :
        /\ trace[i].arg.start = StartOfDay(DateOf(api.date), api.date.loc)
        /\ trace[i].arg.end = StartOfDay(DateOf(api.date) + 1, api.date.loc)
        /\ trace[i].res.OK => DateOf(Found(i)) = DateOf(api.date)

\* C10: a morning or evening window reported by GoldenHourFor or BlueHourFor
\* ends strictly after it starts and has both of its crossings found; a window
\* that is not reported is the zero value.
C10_ReportedWindowOrdered ==
    PhasesCall =>
        /\ ret.phases.HasMorning
             => /\ After(ret.phases.Morning.End, ret.phases.Morning.Start)
                /\ trace[1].res.OK /\ trace[3].res.OK
        /\ ret.phases.HasEvening
             => /\ After(ret.phases.Evening.End, ret.phases.Evening.Start)
                /\ trace[4].res.OK /\ trace[2].res.OK
        /\ ~ret.phases.HasMorning => ret.phases.Morning = ZeroWindow
        /\ ~ret.phases.HasEvening => ret.phases.Evening = ZeroWindow

C10_Witness ==
    /\ api.op = "GoldenHourFor"
    /\ trace[1].res.OK
    /\ trace[3].res.OK
    /\ ~ret.phases.HasMorning
    /\ ret.phases.HasEvening
    /\ After(ret.phases.Evening.End, ret.phases.Evening.Start)

\* The window a GoldenHourFor / BlueHourFor call is due to report: both of its
\* crossings found and, read in the requested timezone on the requested date,
\* the second after the first.
WindowDue(i, j) ==
    /\ trace[i].res.OK
    /\ trace[j].res.OK
    /\ After(withLocalDate(Found(j), DateOf(api.date)),
             withLocalDate(Found(i), DateOf(api.date)))

\* C11: GoldenHourFor and BlueHourFor return ErrNoRiseNoSet with an empty
\* DaylightPhases exactly when neither the morning nor the evening window is
\* reported; otherwise the error is nil and HasMorning or HasEvening is true.
C11_NoWindowExactlyErr ==
    PhasesCall =>
        /\ ret.err \in {"nil", "ErrNoRiseNoSet"}
        /\ (ret.err = "ErrNoRiseNoSet") <=> (~WindowDue(1, 3) /\ ~WindowDue(4, 2))
        /\ ret.err = "ErrNoRiseNoSet" => ret.phases = ZeroPhases
        /\ ret.err = "nil" => (ret.phases.HasMorning \/ ret.phases.HasEvening)

C11_Witness ==
    /\ api.op = "BlueHourFor"
    /\ ret.err = "ErrNoRiseNoSet"
    /\ ret.phases = ZeroPhases
    /\ ~WindowDue(1, 3)
    /\ ~WindowDue(4, 2)

\* C12: the Fraction returned by MoonPhaseAt is in [0, 1] and the error is nil,
\* whatever the instant and the computed cosine of the Sun-Moon separation,
\* also when the cosine is a little outside [-1, 1].
C12_FractionInUnitInterval ==
    api.op = "MoonPhaseAt" =>
        /\ ret.moon.Fraction >= 0
        /\ ret.moon.Fraction <= 1000
        /\ ret.err = "nil"

C12_Witness ==
    /\ api.op = "MoonPhaseAt"
    /\ api.eph.cosPsi > 500
    /\ ret.moon.Fraction = 0
    /\ ret.err = "nil"

\* C13: the phase name follows from the illuminated fraction f and the waxing
\* flag by these rules in order: f < 0.01 New Moon; f > 0.99 Full Moon;
\* |f - 0.5| < 0.05 First Quarter when waxing, else Last Quarter; f < 0.5 Waxing
\* Crescent when waxing, else Waning Crescent; otherwise Waxing Gibbous when
\* waxing, else Waning Gibbous.  A Waxing or First name needs the waxing flag.
C13_PhaseNameRules ==
    api.op = "MoonPhaseAt" =>
        LET f == ret.moon.Fraction
            w == ret.moon.Waxing
            n == ret.moon.Name
            new == f < 10
            full == ~new /\ f > 990
            quarter == ~new /\ ~full /\ f > 450 /\ f < 550
            crescent == ~new /\ ~full /\ ~quarter /\ f < 500
            gibbous == ~new /\ ~full /\ ~quarter /\ ~crescent
        IN /\ new => n = "New Moon"
           /\ full => n = "Full Moon"
           /\ (quarter /\ w) => n = "First Quarter"
           /\ (quarter /\ ~w) => n = "Last Quarter"
           /\ (crescent /\ w) => n = "Waxing Crescent"
           /\ (crescent /\ ~w) => n = "Waning Crescent"
           /\ (gibbous /\ w) => n = "Waxing Gibbous"
           /\ (gibbous /\ ~w) => n = "Waning Gibbous"
           /\ n \in {"First Quarter", "Waxing Crescent", "Waxing Gibbous"} => w

C13_Witness ==
    /\ api.op = "MoonPhaseAt"
    /\ ret.moon.Fraction = 450
    /\ ~ret.moon.Waxing
    /\ ret.moon.Name = "Waning Crescent"

\* C15: DaylightHours returns 0 and ErrNoRiseNoSet whenever the Sun has no
\* sunrise or no sunset on the date, so that a nil error comes only with a
\* value computed from a found sunrise and a found sunset.
C15_DaylightNeedsBothEvents ==
    (api.op = "DaylightHours" /\ (~trace[1].res.OK \/ ~trace[2].res.OK))
        => (ret.err = "ErrNoRiseNoSet" /\ ret.hours = 0)

\* The call answered is one of the four event queries.
QueryCall ==
    api.op \in {"RiseSetFor", "TwilightFor", "GoldenHourFor", "BlueHourFor"}

\* What the query answered returns for another location and date argument.
Redo(loc, date) ==
    CASE api.op = "RiseSetFor" -> RiseSetFor(api.body, loc, date, api.sky).ret
      [] api.op = "TwilightFor" -> TwilightFor(loc, date, api.kind, api.sky).ret
      [] api.op = "GoldenHourFor" -> GoldenHourFor(loc, date, api.sky).ret
      [] api.op = "BlueHourFor" -> BlueHourFor(loc, date, api.sky).ret

\* The other date arguments on the calendar date and in the timezone of the
\* one given.
SameDay ==
    {d \in Dates : /\ d # api.date
                   /\ DateOf(d) = DateOf(api.date)
                   /\ d.loc = api.date.loc}

\* C16: RiseSetFor, TwilightFor, GoldenHourFor and BlueHourFor give the same
\* result for two date arguments on the same calendar date in the same
\* timezone, whatever their times of day.
C16_TimeOfDayIgnored ==
    QueryCall => \A d \in SameDay : Redo(api.loc, d) = ret

C16_Witness ==
    /\ QueryCall
    /\ ClockOf(api.date) = 13 * Hour
    /\ \E d \in SameDay : ClockOf(d) = 0
    /\ ret.err = "nil"

\* C17: RiseSetFor, TwilightFor, GoldenHourFor and BlueHourFor give the same
\* result for two locations that differ only in Elevation.
C17_ElevationIgnored ==
    QueryCall =>
        \A el \in Elevations \ {api.loc.Elevation} :
            Redo([api.loc EXCEPT !.Elevation = el], api.date) = ret

C17_Witness ==
    /\ QueryCall
    /\ api.loc.Elevation = 1500
    /\ ret.err = "nil"
    /\ api.op = "RiseSetFor"
    /\ api.body = Sun

\* C18: at the equator, on any date, the sunrise and the sunset returned by
\* RiseSetFor(Sun, ...) are within 15 minutes of 12 hours apart.
C18_EquatorTwelveHours ==
    (/\ api.op = "RiseSetFor"
     /\ api.body = Sun
     /\ api.loc.Lat = 0
     /\ trace[1].res.OK
     /\ trace[2].res.OK)
        => Abs(Abs(Sub(ret.rs.Set, ret.rs.Rise)) - 12 * Hour) <= 15 * 60

\* The call answered is RiseSetFor(Moon, ...): search 1 uses the rise-detection
\* function, search 2 the set-detection function.
MoonCall == api.op = "RiseSetFor" /\ api.body = Moon

\* The Moon's apparent altitude at t, and the horizon that the altitude
\* function of search i takes away from it.
MoonAlt(t) ==
    MoonApparentAltitude(api.loc.Lat, api.loc.Lon, api.sky.decl, api.sky.lag, t)
HorizonOf(i, t) == MoonAlt(t) - AltitudeFunc(trace[i].arg.f, t)

\* The hours of the search window.
WindowHours == {trace[2].arg.start + k * Hour : k \in 0..24}

\* The set that a downward search at the rise horizon finds.
SetAtRiseHorizon ==
    FindAltitudeEvent(trace[1].arg.f, trace[2].arg.start, trace[2].arg.end,
                      0, CrossingDown, MoonSteps, MoonTol).res

\* The detected set is not later than the set at the rise horizon.
SetNotLater ==
    trace[2].res.OK =>
        \A atRise \in {SetAtRiseHorizon} :
            atRise.OK => trace[2].res.Time <= atRise.Time

C20_CloserMoonLowerHorizon ==
    MoonCall =>
        LET d == api.sky.dist
            h == HorizonOf(1, trace[1].arg.start)
            dev == GoDiv(600 * Abs(d - 384400), 384400)
        IN /\ (d <= 0 \/ d = 384400) => h = -900
           /\ (0 < d /\ d < 384400) => (h < -900 /\ h = -900 - dev)
           /\ d > 384400 => (h > -900 /\ h = -900 + dev)

\* Every finished query has the result it has on its own.
AsAlone ==
    \A g \in Goroutines :
        tasks[g].pc = "done" => tasks[g].out = Query(tasks[g].call)

\* A step writes the locals of one goroutine at most and never the epoch.
NoSharedWrite ==
    /\ j2000' = j2000
    /\ \A g, h \in Goroutines :
          (tasks'[g] # tasks[g] /\ tasks'[h] # tasks[h]) => g = h

\* C14: queries run concurrently in any interleaving each return the result
\* they return when run alone; no step of a query writes what another query
\* reads, and the reference epoch is never written after initialization.
C14_ConcurrentAsAlone == [](AsAlone /\ j2000 = J2000) /\ [][NoSharedWrite]_vars

\* A query read the epoch and finished with a result while another query was
\* under way, and that other query has finished too.
C14_Witness ==
    \E g, h \in Goroutines :
        /\ g # h
        /\ tasks[g].pc = "done"
        /\ tasks[g].among
        /\ tasks[g].out = Query(tasks[g].call)
        /\ tasks[g].out.err = "nil"
        /\ tasks[h].pc = "done"
        /\ tasks[h].call # tasks[g].call

\* The sampling loop of the direct call is about to take sample i and compare
\* it with the sample before.
AtPair == sv.pc = "scan" /\ sv.i < sv.steps /\ Directional

\* The step of the sampling loop takes the pair as a bracket: it leaves the
\* loop for bisect with the two sample points as the ends.
PairTaken ==
    /\ sv'.pc # "scan"
    /\ sv'.a = sv.prevT
    /\ sv'.b = sv.arg.start + sv.i * sv.interval

\* C21: between two consecutive samples with values v1, v2 of altitude - target
\* a Rising crossing is detected exactly when v1 < 0 and v2 >= 0, a Setting
\* crossing exactly when v1 > 0 and v2 <= 0; a pair whose earlier value is 0
\* is never a crossing.
C21_CrossingExactlyOnSignRule ==
    [][AtPair =>
        LET v1 == Rel(sv.prevT)
            v2 == Rel(sv.arg.start + sv.i * sv.interval)
        IN /\ PairTaken <=> IF sv.arg.eventType = CrossingUp
                            THEN v1 < 0 /\ v2 >= 0
                            ELSE v1 > 0 /\ v2 <= 0
           /\ v1 = 0 => ~PairTaken]_vars

\* A pair whose earlier value was exactly 0 and whose later value was past the
\* target has been passed over, and a pair ending exactly on the target has
\* been taken.
C21_Witness ==
    /\ sv.pc = "bisect"
    /\ Directional
    /\ sv.altB = 0
    /\ \E k \in 1..(SampleCount - 1) :
          /\ SamplePoint(k) <= sv.a
          /\ Rel(SamplePoint(k - 1)) = 0
          /\ IF sv.arg.eventType = CrossingUp
             THEN Rel(SamplePoint(k)) > 0 ELSE Rel(SamplePoint(k)) < 0

\* The direct call has a window and has computed its sampling interval.
Sampling == sv.pc # "idle" /\ sv.arg.start < sv.arg.end

\* The instant of sample k of the direct call, as its loop computes it.
SampleAt(k) == sv.arg.start + k * sv.interval

\* C22: the sampling of FindAltitudeEvent divides the whole window into
\* sampleCount - 1 equal parts: the first sample is at windowStart, the last at
\* windowEnd, and so a monotonic altitude function below the target at
\* windowStart and at or above it at windowEnd is always bracketed.
C22_SamplesCoverWindow ==
    Sampling =>
        /\ SampleAt(0) = sv.arg.start
        /\ SampleAt(sv.steps - 1) = sv.arg.end
        /\ (/\ SolverDone
            /\ sv.arg.eventType = CrossingUp
            /\ Monotonic
            /\ Rel(sv.arg.start) < 0
            /\ Rel(sv.arg.end) >= 0) => sv.res.OK

\* The ends of the bracket of the direct call are on the two sides of the
\* target that its direction asks for.
SignCondition ==
    IF sv.arg.eventType = CrossingUp
    THEN Rel(sv.a) < 0 /\ Rel(sv.b) >= 0
    ELSE Rel(sv.a) > 0 /\ Rel(sv.b) <= 0

\* A pass of the loop of bisect that does not leave it: one end becomes the
\* midpoint, the other stays, the bracket is not wider than before.
OneEndToMidpoint ==
    LET mid == sv.a + GoDiv(sv.b - sv.a, 2)
    IN /\ \/ sv'.a = mid /\ sv'.b = sv.b
          \/ sv'.b = mid /\ sv'.a = sv.a
       /\ ~(sv'.a = mid /\ sv'.b = mid)
       /\ sv.a <= sv'.a
       /\ sv'.b <= sv.b
       /\ sv'.b - sv'.a <= sv.b - sv.a

\* bisect has returned its result: the loop has ended.
BisectEnded == SolverDone /\ sv.res.OK

\* C23: during bisection the bracket [a, b] always satisfies the directional
\* sign condition, each step replaces exactly one end by the midpoint and
\* never widens the bracket, and when the loop ends the bracket is at most
\* tol wide and the instant returned is its midpoint.
C23_BisectionKeepsBracket ==
    /\ []((Directional /\ (sv.pc = "bisect" \/ BisectEnded)) => SignCondition)
    /\ []((Directional /\ BisectEnded) =>
            /\ sv.b - sv.a <= sv.arg.tol
            /\ sv.res.Time = sv.a + GoDiv(sv.b - sv.a, 2))
    /\ [][(Directional /\ sv.pc = "bisect" /\ sv'.pc = "bisect")
            => OneEndToMidpoint]_vars

\* A bisection that moved both ends of the bracket it started from and ended
\* with a bracket wider than one unit of time, its midpoint off both ends.
C23_Witness ==
    /\ BisectEnded
    /\ Directional
    /\ Cardinality(Brackets) >= 1
    /\ SamplePoint(FirstBracket - 1) < sv.a
    /\ sv.b < SamplePoint(FirstBracket)
    /\ sv.a < sv.res.Time
    /\ sv.res.Time < sv.b

\* What the direct call returns when it is made with a sample count of 2.
WithTwoSamples ==
    FindAltitudeEvent(sv.arg.f, sv.arg.start, sv.arg.end, sv.arg.targetDeg,
                      sv.arg.eventType, 2, sv.arg.tol).res

\* C24: a sample count below 2 (0 and negative values included) is treated as
\* 2: the call samples the two ends of the window only and returns what it
\* returns for a sample count of 2.
C24_FewSamplesAsTwo ==
    (sv.pc # "idle" /\ sv.arg.steps < 2) =>
        /\ Sampling => /\ sv.steps = 2
                       /\ SampleAt(0) = sv.arg.start
                       /\ SampleAt(1) = sv.arg.end
                       /\ sv.i <= 2
        /\ SolverDone => sv.res = WithTwoSamples

C24_Witness ==
    /\ SolverDone
    /\ sv.arg.steps < 0
    /\ sv.res.OK
    /\ sv.res = WithTwoSamples
    /\ sv.b - sv.a < sv.arg.end - sv.arg.start

\* The call answered computed hour angles: ret.angle[i] from api.lst and
\* api.ra[i].
HourAngleCall == api.op = "apparentAltitude"

\* x and y differ by whole turns.
SameDirection(x, y) == (x - y) % (360 * Deg) = 0

\* C25 as stated: in the Sun and the Moon altitude computations the wrapped
\* hour angle is in the half-open range (-180, 180] degrees and congruent to
\* LST - RA modulo 360 degrees, the Moon's topocentric hour angle included.
C25_HourAngleHalfOpen ==
    HourAngleCall =>
        \A i \in DOMAIN ret.angle :
            /\ -(180 * Deg) < ret.angle[i]
            /\ ret.angle[i] <= 180 * Deg
            /\ SameDirection(ret.angle[i], api.lst - api.ra[i])

\* C25, amended: the wrapped hour angle is in the closed range [-180, 180]
\* degrees and congruent to LST - RA modulo 360 degrees, the Moon's
\* topocentric hour angle included.
C25_HourAngleClosedRange ==
    HourAngleCall =>
        \A i \in DOMAIN ret.angle :
            /\ -(180 * Deg) <= ret.angle[i]
            /\ ret.angle[i] <= 180 * Deg
            /\ SameDirection(ret.angle[i], api.lst - api.ra[i])

\* The Moon's two hour angles: the geocentric one brought down by a turn, the
\* topocentric one left on the upper end of the range.
C25_Witness ==
    /\ HourAngleCall
    /\ api.body = Moon
    /\ api.lst - api.ra[1] > 180 * Deg
    /\ ret.angle[1] = api.lst - api.ra[1] - 360 * Deg
    /\ api.ra[2] # api.ra[1]
    /\ ret.angle[2] = 180 * Deg

\* r is x less a whole number of turns of m, as nearly as the rounding of
\* one sum allows.
Congruent(r, x, m) ==
    LET k == (r - x) % m
    IN k <= 1 \/ k >= m - 1

\* C26: for every angle d, Normalize360(d) is r with 0 <= r < 360, r
\* congruent to d modulo 360 (to the precision of the floats), and
\* Normalize360(r) = r; Normalize24 likewise with 24.
C26_NormalizeIntoRange ==
    /\ api.op = "Normalize360" =>
          LET r == ret.angle[1]
          IN /\ 0 <= r
             /\ r < 360 * Deg
             /\ Congruent(r, api.d, 360 * Deg)
             /\ Normalize360(r) = r
    /\ api.op = "Normalize24" =>
          LET r == ret.angle[1]
          IN /\ 0 <= r
             /\ r < 24 * Hr
             /\ Congruent(r, api.d, 24 * Hr)
             /\ Normalize24(r) = r

\* The searches of the call answered were made with the orchestrator's
\* constants: 48 samples over 24 hours, 30 seconds of tolerance.
OrchestratorSearch(i) ==
    /\ trace[i].arg.steps = 48
    /\ trace[i].arg.tol = 30
    /\ trace[i].arg.end - trace[i].arg.start = 24 * Hour

\* C27: with the orchestrator's constants one crossing search evaluates the
\* altitude function at most 56 times: 48 samples, 2 evaluations of the ends
\* of the bracket, 6 midpoints.
C27_AtMost56Evaluations ==
    \A i \in DOMAIN trace :
        /\ OrchestratorSearch(i)
        /\ trace[i].evals <= 56
        /\ ~trace[i].res.OK => trace[i].evals <= 48

\* A search that found its bracket in the last pair of samples.
C27_Witness ==
    \E i \in DOMAIN trace :
        /\ trace[i].res.OK
        /\ trace[i].evals = 56
        /\ trace[i].a >= trace[i].arg.start + 46 * trace[i].interval

\* The calls of FindAltitudeEvent that have returned: the direct call and the
\* searches of the orchestrator call answered.
ReturnedCalls ==
    {fr \in {sv} \cup {trace[i] : i \in DOMAIN trace} : fr.pc = "done"}

\* C28: whenever FindAltitudeEvent returns OK = true the instant t returned
\* satisfies windowStart <= t < windowEnd; whenever it returns OK = false the
\* time returned is the zero value.
C28_FoundInsideWindow ==
    \A fr \in ReturnedCalls :
        /\ fr.res.OK => /\ fr.arg.start <= fr.res.Time
                        /\ fr.res.Time < fr.arg.end
        /\ ~fr.res.OK => fr.res.Time = 0

\* A call that found its crossing in a bracket ending at the end of the
\* window and returned the last instant before it.
C28_Witness ==
    /\ SolverDone
    /\ sv.res.OK
    /\ sv.b = sv.arg.end
    /\ sv.res.Time = sv.arg.end - 1
    /\ sv.arg.start < sv.res.Time

\* The returned time t is the instant search i found, with the clock reading
\* that instant has in the requested timezone.
SameEvent(t, i) ==
    /\ t.abs = trace[i].res.Time
    /\ ClockOf(t) = ClockOf(Found(i))

\* C29: every event returned by RiseSetFor or TwilightFor denotes the same
\* absolute instant as the one the solver found in the search window, and
\* keeps the clock reading of that instant in the requested timezone.
C29_RepinningKeepsInstant ==
    RiseSetCall =>
        /\ trace[1].res.OK => SameEvent(ret.rs.Rise, 1)
        /\ trace[2].res.OK => SameEvent(ret.rs.Set, 2)

\* C30: for the same location and date, when BlueHourFor and GoldenHourFor
\* both report a morning window the morning blue hour ends at the start of the
\* morning golden hour, the upward crossing of -4 degrees; when both report an
\* evening window the evening golden hour ends at the start of the evening blue
\* hour.
C30_BlueMeetsGolden ==
    api.op = "GoldenHourFor" =>
        \A blue \in {BlueHourFor(api.loc, api.date, api.sky).ret.phases} :
            /\ (ret.phases.HasMorning /\ blue.HasMorning)
                  => /\ blue.Morning.End = ret.phases.Morning.Start
                     /\ trace[1].arg.targetDeg = -4000
                     /\ trace[1].arg.eventType = CrossingUp
                     /\ ret.phases.Morning.Start
                          = withLocalDate(Found(1), DateOf(api.date))
            /\ (ret.phases.HasEvening /\ blue.HasEvening)
                  => ret.phases.Evening.End = blue.Evening.Start

\* Both queries report both windows.
C30_Witness ==
    /\ api.op = "GoldenHourFor"
    /\ ret.phases.HasMorning
    /\ ret.phases.HasEvening
    /\ \E blue \in {BlueHourFor(api.loc, api.date, api.sky).ret.phases} :
          /\ blue.HasMorning
          /\ blue.HasEvening
          /\ After(blue.Morning.End, blue.Morning.Start)
          /\ blue.Morning.End = ret.phases.Morning.Start
          /\ After(blue.Evening.End, blue.Evening.Start)

====
